---- MODULE Spec2Model ----
\* Model of react/features/base/media/components/web/Video.js: the Video
\* component, its lifecycle handlers and its calls into the JitsiTrack
\* attach/detach/containers interface.
EXTENDS Integers, Sequences, FiniteSets, TLC

\* ------------------------------------------------------------------ bounds
NumTracks == 2          \* distinct JitsiTrack objects
NumWrappers == 2        \* distinct redux track records wrapping a JitsiTrack
NumCallbacks == 2       \* distinct onVideoPlaying callbacks
MaxReplacements == 2    \* times attach() may hand back a substituted element

\* ------------------------------------------------------------------ values
\* JavaScript's two absent values; `a && b' and `!a' treat both as falsy,
\* `!==' tells them apart.
Undefined == [kind |-> "undefined"]
Null == [kind |-> "null"]
Falsy(v) == v \in {Undefined, Null}

JitsiTrack(i) == [kind |-> "jitsiTrack", id |-> i]
JitsiTracks == {JitsiTrack(i) : i \in 1..NumTracks}

\* The element the <video> of render() creates is Element(0); Element(k),
\* k > 0, is the k-th object substituted for it by attach().
Element(i) == [kind |-> "element", id |-> i]
Elements == {Element(i) : i \in 0..MaxReplacements}
\* An element rendered by some other component.
OtherElement == [kind |-> "otherElement"]

\* this.props.videoTrack: absent, or a record whose jitsiTrack may be absent.
VideoTracks ==
    {Undefined, Null}
    \cup {[kind |-> "videoTrack", w |-> w, jitsiTrack |-> t] :
            w \in 1..NumWrappers, t \in JitsiTracks \cup {Undefined, Null}}

Callbacks == {[kind |-> "callback", id |-> i] : i \in 1..NumCallbacks}

\* The props the model follows: videoTrack and onVideoPlaying.
Props == [videoTrack : VideoTracks, onVideoPlaying : Callbacks \cup {Undefined}]

\* this._onVideoPlaying, bound once in the constructor.
OnVideoPlayingHandler == [kind |-> "handler", name |-> "_onVideoPlaying"]

\* A fresh <video>: full volume, no onplaying handler.
DefaultAttrs == [volume |-> 1, onplaying |-> Undefined]

VARIABLES
    phase,          \* "constructed", "rendered", "mounted", "unmounted"
    props,          \* this.props
    videoElement,   \* this._videoElement
    containers,     \* jitsiTrack.containers, per JitsiTrack
    attrs,          \* volume and onplaying of each element of this component
    replaced,       \* how many substituted elements attach() has created
    lastOp,         \* the handler that ran last
    calls,          \* what that handler did, in order
    result,         \* what that handler returned
    ledger          \* history: the component's attach calls not yet undone
                    \* by one of its detach calls, and whether its calls
                    \* ever failed to pair up; void once the library has
                    \* changed containers on its own

vars == <<phase, props, videoElement, containers, attrs, replaced, lastOp,
          calls, result, ledger>>

\* ----------------------------------------------- handlers, as functions
\* A handler maps the component's and the library's state
\*   s = [videoElement, containers, attrs, replaced, calls]
\* to the state it leaves.

\* const x = videoTrack && videoTrack.jitsiTrack
TrackOf(videoTrack) ==
    IF Falsy(videoTrack) THEN videoTrack ELSE videoTrack.jitsiTrack

\* jitsiTrack.attach(container) returning `returned': the returned element
\* joins the track's containers; a substituted object takes over the
\* attributes set on the element it replaces.
JitsiTrackAttach(s, jitsiTrack, container, returned) ==
    LET call == [op |-> "attach", track |-> jitsiTrack, surface |-> container,
                 returned |-> returned,
                 volume |-> IF container \in DOMAIN s.attrs
                            THEN s.attrs[container].volume ELSE -1,
                 onplaying |-> IF container \in DOMAIN s.attrs
                               THEN s.attrs[container].onplaying ELSE Undefined]
    IN [s EXCEPT
          !.calls = Append(@, call),
          !.containers = IF jitsiTrack \in DOMAIN @
                         THEN [@ EXCEPT ![jitsiTrack] = @ \cup {returned}]
                         ELSE @,
          !.attrs = IF returned # container /\ container \in DOMAIN @
                       /\ returned \in DOMAIN @
                    THEN [@ EXCEPT ![returned] = s.attrs[container]]
                    ELSE @,
          !.replaced = IF returned # container THEN @ + 1 ELSE @]

\* jitsiTrack.detach(container): the element leaves the track's containers.
JitsiTrackDetach(s, jitsiTrack, container) ==
    LET call == [op |-> "detach", track |-> jitsiTrack, surface |-> container,
                 member |-> jitsiTrack \in DOMAIN s.containers
                            /\ container \in s.containers[jitsiTrack]]
    IN [s EXCEPT
          !.calls = Append(@, call),
          !.containers = IF jitsiTrack \in DOMAIN @
                         THEN [@ EXCEPT ![jitsiTrack] = @ \ {container}]
                         ELSE @]

\* What attach(container) may return: the element itself, or a new object
\* substituted for it.
AttachReturns(s) ==
    {s.videoElement}
    \cup (IF s.replaced < MaxReplacements
          THEN {Element(s.replaced + 1)} ELSE {})

_setVideoElement(s, element) ==
    [s EXCEPT !.videoElement = element]

\* _attachTrack without the jitsiTrack check.
Mut_attachTrackNoTrackCheck(s, videoTrack, returned) ==
    IF Falsy(videoTrack)
    THEN s
    ELSE LET updated == JitsiTrackAttach(s, videoTrack.jitsiTrack,
                                         s.videoElement, returned)
         IN _setVideoElement(updated, returned)

\* _attachTrack that keeps the element it passed in.
Mut_attachTrackKeepsElement(s, videoTrack, returned) ==
    IF Falsy(videoTrack) \/ Falsy(videoTrack.jitsiTrack)
    THEN s
    ELSE LET updated == JitsiTrackAttach(s, videoTrack.jitsiTrack,
                                         s.videoElement, returned)
         IN _setVideoElement(updated, s.videoElement)

_attachTrack(s, videoTrack, returned) ==
    IF Falsy(videoTrack) \/ Falsy(videoTrack.jitsiTrack)
    THEN s
    ELSE LET updated == JitsiTrackAttach(s, videoTrack.jitsiTrack,
                                         s.videoElement, returned)
             updatedVideoElement == updated.calls[Len(updated.calls)].returned
         IN _setVideoElement(updated, updatedVideoElement)

\* _detachTrack without the containers.includes check.
Mut_detachTrackNoIncludes(s, videoTrack) ==
    IF /\ ~Falsy(s.videoElement)
       /\ ~Falsy(videoTrack)
       /\ ~Falsy(videoTrack.jitsiTrack)
    THEN JitsiTrackDetach(s, videoTrack.jitsiTrack, s.videoElement)
    ELSE s

\* _detachTrack that drops the element reference once it has detached.
Mut_detachTrackClearsElement(s, videoTrack) ==
    IF /\ ~Falsy(s.videoElement)
       /\ ~Falsy(videoTrack)
       /\ ~Falsy(videoTrack.jitsiTrack)
       /\ s.videoElement \in s.containers[videoTrack.jitsiTrack]
    THEN _setVideoElement(
             JitsiTrackDetach(s, videoTrack.jitsiTrack, s.videoElement), Null)
    ELSE s

_detachTrack(s, videoTrack) ==
    IF /\ ~Falsy(s.videoElement)
       /\ ~Falsy(videoTrack)
       /\ ~Falsy(videoTrack.jitsiTrack)
       /\ s.videoElement \in s.containers[videoTrack.jitsiTrack]
    THEN JitsiTrackDetach(s, videoTrack.jitsiTrack, s.videoElement)
    ELSE s

SetVolume(s, value) ==
    [s EXCEPT !.attrs[s.videoElement].volume = value,
              !.calls = Append(@, [op |-> "volume", surface |-> s.videoElement,
                                   value |-> value])]

SetOnplaying(s, handler) ==
    [s EXCEPT !.attrs[s.videoElement].onplaying = handler,
              !.calls = Append(@, [op |-> "onplaying",
                                   surface |-> s.videoElement,
                                   handler |-> handler])]

\* componentDidMount that leaves the volume alone.
MutComponentDidMountNoVolume(s, p, returned) ==
    _attachTrack(SetOnplaying(s, OnVideoPlayingHandler), p.videoTrack, returned)

\* componentDidMount that attaches before it sets the attributes.
MutComponentDidMountAttachFirst(s, p, returned) ==
    SetOnplaying(SetVolume(_attachTrack(s, p.videoTrack, returned), 0),
                 OnVideoPlayingHandler)

\* componentDidMount that registers the onVideoPlaying prop itself as the
\* onplaying handler.
MutComponentDidMountRegistersProp(s, p, returned) ==
    _attachTrack(SetOnplaying(SetVolume(s, 0), p.onVideoPlaying),
                 p.videoTrack, returned)

componentDidMount(s, p, returned) ==
    _attachTrack(SetOnplaying(SetVolume(s, 0), OnVideoPlayingHandler),
                 p.videoTrack, returned)

\* componentWillUnmount that forgets the track.
MutComponentWillUnmountNoDetach(s, p) ==
    s

componentWillUnmount(s, p) ==
    _detachTrack(s, p.videoTrack)

\* shouldComponentUpdate that attaches the next track before it detaches
\* the current one.
MutShouldComponentUpdateAttachFirst(s, p, nextProps, returned) ==
    [state |-> IF TrackOf(p.videoTrack) # TrackOf(nextProps.videoTrack)
               THEN _detachTrack(_attachTrack(s, nextProps.videoTrack, returned),
                                 p.videoTrack)
               ELSE s,
     value |-> FALSE]

\* shouldComponentUpdate that does not detach the current track.
MutShouldComponentUpdateNoDetach(s, p, nextProps, returned) ==
    [state |-> IF TrackOf(p.videoTrack) # TrackOf(nextProps.videoTrack)
               THEN _attachTrack(s, nextProps.videoTrack, returned)
               ELSE s,
     value |-> FALSE]

\* shouldComponentUpdate that compares the wrapping records.
MutShouldComponentUpdateComparesRecords(s, p, nextProps, returned) ==
    [state |-> IF p.videoTrack # nextProps.videoTrack
               THEN _attachTrack(_detachTrack(s, p.videoTrack),
                                 nextProps.videoTrack, returned)
               ELSE s,
     value |-> FALSE]

\* shouldComponentUpdate that asks for a re-render when the track changed.
MutShouldComponentUpdateReturnsChanged(s, p, nextProps, returned) ==
    [state |-> IF TrackOf(p.videoTrack) # TrackOf(nextProps.videoTrack)
               THEN _attachTrack(_detachTrack(s, p.videoTrack),
                                 nextProps.videoTrack, returned)
               ELSE s,
     value |-> TrackOf(p.videoTrack) # TrackOf(nextProps.videoTrack)]

\* shouldComponentUpdate that acts only when there is a next jitsiTrack.
MutShouldComponentUpdateIgnoresRemoval(s, p, nextProps, returned) ==
    [state |-> IF /\ ~Falsy(TrackOf(nextProps.videoTrack))
                  /\ TrackOf(p.videoTrack) # TrackOf(nextProps.videoTrack)
               THEN _attachTrack(_detachTrack(s, p.videoTrack),
                                 nextProps.videoTrack, returned)
               ELSE s,
     value |-> FALSE]

\* Returns the state left and the value returned.
shouldComponentUpdate(s, p, nextProps, returned) ==
    LET currentJitsiTrack == TrackOf(p.videoTrack)
        nextJitsiTrack == TrackOf(nextProps.videoTrack)
    IN [state |-> IF currentJitsiTrack # nextJitsiTrack
                  THEN _attachTrack(_detachTrack(s, p.videoTrack),
                                    nextProps.videoTrack, returned)
                  ELSE s,
        value |-> FALSE]

_onVideoPlaying(s, p) ==
    IF ~Falsy(p.onVideoPlaying)
    THEN [s EXCEPT !.calls = Append(@, [op |-> "onVideoPlaying",
                                        callback |-> p.onVideoPlaying])]
    ELSE s

\* The playing event runs the function held by the element's onplaying
\* attribute: the bound _onVideoPlaying, which reads this.props when it runs,
\* or whatever other function was put there.
DispatchPlaying(s, p, handler) ==
    IF handler = OnVideoPlayingHandler
    THEN _onVideoPlaying(s, p)
    ELSE [s EXCEPT !.calls = Append(@, [op |-> "onVideoPlaying",
                                        callback |-> handler])]

\* ------------------------------------------------------------ the machine
\* The handler state at the start of a handler: nothing done yet.
Entry ==
    [videoElement |-> videoElement, containers |-> containers,
     attrs |-> attrs, replaced |-> replaced, calls |-> <<>>]

\* The ledger after the calls cs: an attach call opens the pair of its track
\* and the element it returned, a detach call closes the pair of its track and
\* element; opening an open pair or closing one that is not open is unbalanced.
\* A void ledger is no longer kept.
NewLedger == [open |-> {}, unbalanced |-> FALSE, void |-> FALSE]
VoidLedger == [open |-> {}, unbalanced |-> FALSE, void |-> TRUE]

RECURSIVE Balance(_, _)
Balance(l, cs) ==
    IF cs = << >> \/ l.void THEN l
    ELSE LET c == Head(cs)
             after ==
                 CASE c.op = "attach" ->
                        [l EXCEPT
                           !.open = @ \cup {<<c.track, c.returned>>},
                           !.unbalanced =
                               @ \/ <<c.track, c.returned>> \in l.open]
                   [] c.op = "detach" ->
                        [l EXCEPT
                           !.open = @ \ {<<c.track, c.surface>>},
                           !.unbalanced =
                               @ \/ <<c.track, c.surface>> \notin l.open]
                   [] OTHER -> l
         IN Balance(after, Tail(cs))

Leave(s, op, value) ==
    /\ videoElement' = s.videoElement
    /\ containers' = s.containers
    /\ attrs' = s.attrs
    /\ replaced' = s.replaced
    /\ calls' = s.calls
    /\ lastOp' = op
    /\ result' = value
    /\ ledger' = Balance(ledger, s.calls)

\* new Video(props): no element yet. Other components may already show
\* any of the tracks.
Init ==
    /\ phase = "constructed"
    /\ props \in Props
    /\ videoElement = Null
    /\ containers \in [JitsiTracks -> SUBSET {OtherElement}]
    /\ attrs = [e \in Elements |-> DefaultAttrs]
    /\ replaced = 0
    /\ lastOp = "constructor"
    /\ calls = <<>>
    /\ result = Undefined
    /\ ledger = NewLedger

\* render(): the host creates the <video> and hands it to the ref callback.
Render ==
    /\ phase = "constructed"
    /\ phase' = "rendered"
    /\ Leave(_setVideoElement(Entry, Element(0)), "render", Undefined)
    /\ UNCHANGED props

ComponentDidMount ==
    /\ phase = "rendered"
    /\ phase' = "mounted"
    /\ \E returned \in AttachReturns(Entry) :
          Leave(componentDidMount(Entry, props, returned),
                "componentDidMount", Undefined)
    /\ UNCHANGED props

\* The host asks whether to re-render for nextProps, then makes nextProps
\* the component's props whatever the answer.
ShouldComponentUpdate ==
    /\ phase = "mounted"
    /\ \E nextProps \in Props, returned \in AttachReturns(Entry) :
          LET r == shouldComponentUpdate(Entry, props, nextProps, returned)
          IN /\ Leave(r.state, "shouldComponentUpdate", r.value)
             /\ props' = nextProps
    /\ UNCHANGED phase

ComponentWillUnmount ==
    /\ phase = "mounted"
    /\ phase' = "unmounted"
    /\ Leave(componentWillUnmount(Entry, props), "componentWillUnmount",
             Undefined)
    /\ UNCHANGED props

\* The element enters the playing state and runs its onplaying handler.
VideoPlaying ==
    /\ phase = "mounted"
    /\ ~Falsy(attrs[videoElement].onplaying)
    /\ Leave(DispatchPlaying(Entry, props, attrs[videoElement].onplaying),
             "onplaying", Undefined)
    /\ UNCHANGED <<phase, props>>

\* The library drops every container of a track on its own (the track is
\* disposed of, say) without telling the component.
TrackDetachAll ==
    /\ phase = "mounted"
    /\ \E t \in JitsiTracks :
          /\ containers[t] # {}
          /\ containers' = [containers EXCEPT ![t] = {}]
    /\ lastOp' = "detachAll"
    /\ calls' = << >>
    /\ result' = Undefined
    /\ ledger' = VoidLedger
    /\ UNCHANGED <<phase, props, videoElement, attrs, replaced>>

Next ==
    \/ Render
    \/ ComponentDidMount
    \/ ShouldComponentUpdate
    \/ ComponentWillUnmount
    \/ VideoPlaying
    \/ TrackDetachAll

Spec == Init /\ [][Next]_vars

\* The component's life with a library that changes containers only in
\* attach and detach: mount, updates, playing events, unmount.
NextLifecycle ==
    \/ Render
    \/ ComponentDidMount
    \/ ShouldComponentUpdate
    \/ ComponentWillUnmount
    \/ VideoPlaying

LifecycleSpec == Init /\ [][NextLifecycle]_vars

\* ------------------------------------------------------------- properties
\* What a call into the library was made on: operation, track, element.
CallSig(c) == <<c.op, c.track, c.surface>>
LibraryCalls(cs) == SelectSeq(cs, LAMBDA c : c.op \in {"attach", "detach"})
LibrarySigs(cs) ==
    [i \in 1..Len(LibraryCalls(cs)) |-> CallSig(LibraryCalls(cs)[i])]

\* The step is a shouldComponentUpdate call, props' being its nextProps.
UpdateStep == phase = "mounted" /\ lastOp' = "shouldComponentUpdate"
UnmountStep == phase = "mounted" /\ lastOp' = "componentWillUnmount"

\* The detach call _detachTrack makes for the current props, if any.
DetachOfCurrent ==
    LET t == TrackOf(props.videoTrack)
    IN IF t \in JitsiTracks /\ videoElement \in containers[t]
       THEN << <<"detach", t, videoElement>> >>
       ELSE << >>

\* The attach call _attachTrack makes for the next props, if any.
AttachOfNext ==
    LET t == TrackOf(props'.videoTrack)
    IN IF t \in JitsiTracks
       THEN << <<"attach", t, videoElement>> >>
       ELSE << >>

\* Two props carry the same underlying jitsiTrack: the same object, or none
\* on either side.
SameHandle(a, b) == a = b \/ (Falsy(a) /\ Falsy(b))

\* C1 (as stated): every update whose next jitsiTrack differs from the
\* current one (one of the two may be absent) makes exactly one detach call
\* on the old track and then exactly one attach call on the new track, and no
\* other library call.
C1_Original ==
    [][(UpdateStep
        /\ ~SameHandle(TrackOf(props.videoTrack), TrackOf(props'.videoTrack)))
        => LibrarySigs(calls') =
             << <<"detach", TrackOf(props.videoTrack), videoElement>>,
                <<"attach", TrackOf(props'.videoTrack), videoElement>> >>]_vars

\* C1 (amended): every update whose next jitsiTrack differs from the current
\* one makes one detach call on the old track when that track has a
\* jitsiTrack whose containers include the element (none otherwise), then one
\* attach call on the new track when it has a jitsiTrack (none otherwise),
\* in that order, and no other library call.
C1_DetachThenAttach ==
    [][(UpdateStep /\ TrackOf(props.videoTrack) # TrackOf(props'.videoTrack))
        => LibrarySigs(calls') = DetachOfCurrent \o AttachOfNext]_vars

C1_Witness ==
    /\ lastOp = "shouldComponentUpdate"
    /\ Len(calls) = 2
    /\ calls[1].op = "detach" /\ calls[2].op = "attach"
    /\ calls[1].track # calls[2].track
    /\ calls[2].track = TrackOf(props.videoTrack)

\* C2: detach is called only with an element, on a jitsiTrack, whose
\* containers include that element when the call is made.
C2_DetachOnlyWhenAttached ==
    \A i \in 1..Len(calls) :
        calls[i].op = "detach"
        => /\ calls[i].surface \in Elements
           /\ calls[i].track \in JitsiTracks
           /\ calls[i].member

C2_Witness ==
    /\ lastOp = "componentWillUnmount"
    /\ Len(calls) = 1
    /\ calls[1].op = "detach" /\ calls[1].member
    /\ \E t \in JitsiTracks : t # calls[1].track /\ containers[t] # {}

\* C3: at most one jitsiTrack has the component's element among its
\* containers.
TracksShowing(e) == {t \in JitsiTracks : e \in containers[t]}

C3_AtMostOneTrackAttached ==
    Cardinality(TracksShowing(videoElement)) <= 1

C3_Witness ==
    /\ lastOp = "shouldComponentUpdate"
    /\ Len(calls) = 2
    /\ calls[2].op = "attach" /\ calls[2].returned # calls[2].surface
    /\ Cardinality(TracksShowing(videoElement)) = 1

\* C4: componentWillUnmount makes one detach call, on the current track and
\* element, exactly when that track's containers include the element, and no
\* other library call.
C4_UnmountDetachesIffAttached ==
    [][UnmountStep => LibrarySigs(calls') = DetachOfCurrent]_vars

C4_Witness ==
    /\ lastOp = "componentWillUnmount"
    /\ Len(calls) = 1
    /\ calls[1].op = "detach"
    /\ calls[1].track = TrackOf(props.videoTrack)
    /\ calls[1].surface = videoElement

\* C5: an update whose next jitsiTrack is the current one, or where both are
\* absent (SameHandle), makes no library call and leaves the element reference and every
\* track's containers as they were.
C5_SameHandleNoCalls ==
    [][(UpdateStep
        /\ SameHandle(TrackOf(props.videoTrack), TrackOf(props'.videoTrack)))
        => /\ LibraryCalls(calls') = << >>
           /\ videoElement' = videoElement
           /\ containers' = containers]_vars

C5_Witness ==
    /\ lastOp = "shouldComponentUpdate"
    /\ calls = << >>
    /\ TrackOf(props.videoTrack) \in JitsiTracks
    /\ videoElement \in containers[TrackOf(props.videoTrack)]

\* C6: shouldComponentUpdate returns false, whether or not the track changed
\* and whether or not it attached or detached anything.
C6_UpdateReturnsFalse ==
    lastOp = "shouldComponentUpdate" => result = FALSE

C6_Witness ==
    /\ lastOp = "shouldComponentUpdate"
    /\ result = FALSE
    /\ Len(LibraryCalls(calls)) = 2

\* C7: mounting with a track that has a jitsiTrack makes exactly one attach
\* call, on that jitsiTrack with the element render() created, makes no detach
\* call, and leaves that element and the stored one at volume zero.
C7_MountAttachesOnceMuted ==
    (lastOp = "componentDidMount" /\ TrackOf(props.videoTrack) \in JitsiTracks)
    => /\ LibrarySigs(calls) =
            << <<"attach", TrackOf(props.videoTrack), Element(0)>> >>
       /\ attrs[Element(0)].volume = 0
       /\ attrs[videoElement].volume = 0

C7_Witness ==
    /\ lastOp = "componentDidMount"
    /\ TrackOf(props.videoTrack) \in JitsiTracks
    /\ Len(LibraryCalls(calls)) = 1
    /\ videoElement \in containers[TrackOf(props.videoTrack)]
    /\ attrs[videoElement].volume = 0

\* C8: mounting with no track, or with a track that has no jitsiTrack, makes
\* no attach call and leaves the stored element the one render() created.
C8_MountWithoutTrackNoAttach ==
    (lastOp = "componentDidMount" /\ TrackOf(props.videoTrack) \notin JitsiTracks)
    => /\ \A i \in 1..Len(calls) : calls[i].op # "attach"
       /\ videoElement = Element(0)

C8_Witness ==
    /\ lastOp = "componentDidMount"
    /\ ~Falsy(props.videoTrack)
    /\ Falsy(props.videoTrack.jitsiTrack)
    /\ LibraryCalls(calls) = << >>
    /\ videoElement = Element(0)

\* The element reference stored when call i of cs is made, v being the one
\* stored when the handler starts: what the latest attach before i returned.
StoredAt(cs, v, i) ==
    LET prior == {j \in 1..(i - 1) : cs[j].op = "attach"}
    IN IF prior = {} THEN v
       ELSE cs[CHOOSE j \in prior : \A k \in prior : k <= j].returned

\* C9: every handler leaves as the stored element what its last attach call
\* returned, and every attach and detach call is made with the element stored
\* at that moment, so with what the latest attach returned.
C9_StoredElementIsAttachResult ==
    [][lastOp' # "render"
        => /\ videoElement' = StoredAt(calls', videoElement, Len(calls') + 1)
           /\ \A i \in 1..Len(calls') :
                 calls'[i].op \in {"attach", "detach"}
                 => calls'[i].surface = StoredAt(calls', videoElement, i)]_vars

C9_Witness ==
    /\ lastOp \in {"shouldComponentUpdate", "componentWillUnmount"}
    /\ Len(calls) >= 1
    /\ calls[1].op = "detach"
    /\ calls[1].surface # Element(0)
    /\ calls[1].member

\* C10: componentDidMount sets the volume to zero, then registers the
\* onplaying handler, and only then attaches: an attach call is its last
\* step, and the element it passes already carries both.
C10_MountSetsAttributesBeforeAttach ==
    lastOp = "componentDidMount"
    => /\ Len(calls) \in {2, 3}
       /\ calls[1] = [op |-> "volume", surface |-> Element(0), value |-> 0]
       /\ calls[2] = [op |-> "onplaying", surface |-> Element(0),
                      handler |-> OnVideoPlayingHandler]
       /\ Len(calls) = 3 <=> TrackOf(props.videoTrack) \in JitsiTracks
       /\ Len(calls) = 3
          => /\ calls[3].op = "attach"
             /\ calls[3].surface = Element(0)
             /\ calls[3].volume = 0
             /\ calls[3].onplaying = OnVideoPlayingHandler

C10_Witness ==
    /\ lastOp = "componentDidMount"
    /\ Len(calls) = 3
    /\ calls[3].op = "attach"
    /\ calls[3].volume = 0
    /\ calls[3].onplaying = OnVideoPlayingHandler
    /\ calls[3].returned # calls[3].surface

\* C11: an update from a track with a jitsiTrack to no track, or to a track
\* without one, detaches the old track when its containers include the
\* element, makes no attach call and leaves no track on the element; an update
\* from no jitsiTrack to a track with one makes no detach call and exactly one
\* attach call, on the new track.
C11_RemovalDetachesAdditionAttaches ==
    [][UpdateStep
        => /\ (/\ TrackOf(props.videoTrack) \in JitsiTracks
               /\ TrackOf(props'.videoTrack) \notin JitsiTracks)
              => /\ LibrarySigs(calls') = DetachOfCurrent
                 /\ TracksShowing(videoElement)' = {}
           /\ (/\ TrackOf(props.videoTrack) \notin JitsiTracks
               /\ TrackOf(props'.videoTrack) \in JitsiTracks)
              => LibrarySigs(calls') =
                   << <<"attach", TrackOf(props'.videoTrack), videoElement>> >>
       ]_vars

C11_Witness ==
    /\ lastOp = "shouldComponentUpdate"
    /\ TrackOf(props.videoTrack) \notin JitsiTracks
    /\ Len(calls) = 1
    /\ calls[1].op = "detach"
    /\ TracksShowing(videoElement) = {}

\* C12: with a library that changes containers only in attach (adding the
\* element it returns) and detach (removing the element), once the component
\* is unmounted no jitsiTrack has any of its elements, the rendered one or a
\* substituted one, among its containers, and every attach call it made was
\* followed by exactly one detach call on the same track and the element that
\* attach had bound.
C12_NothingAttachedAfterUnmount ==
    phase = "unmounted"
    => /\ \A t \in JitsiTracks : containers[t] \cap Elements = {}
       /\ ledger.open = {}
       /\ ~ledger.unbalanced

C12_Witness ==
    /\ phase = "unmounted"
    /\ lastOp = "componentWillUnmount"
    /\ Len(calls) = 1
    /\ calls[1].op = "detach"
    /\ calls[1].surface = Element(MaxReplacements)
    /\ ledger = NewLedger

\* C13: the stored element reference changes only in the ref callback of
\* render() and through the return value of an attach call: a handler that
\* makes no attach call, whether it detaches, skips the detach or skips the
\* attach, leaves the reference as it was.
C13_ElementWrittenOnlyByRefAndAttach ==
    [][(/\ lastOp' # "render"
        /\ \A i \in 1..Len(calls') : calls'[i].op # "attach")
        => videoElement' = videoElement]_vars

C13_Witness ==
    /\ lastOp = "shouldComponentUpdate"
    /\ ~Falsy(props.videoTrack)
    /\ Falsy(props.videoTrack.jitsiTrack)
    /\ Len(calls) = 1
    /\ calls[1].op = "detach"
    /\ videoElement = calls[1].surface
    /\ videoElement # Element(0)

\* C14: when the element enters the playing state, the onVideoPlaying
\* callback of the props current at that moment, not of the props at mount, is
\* invoked exactly once if there is one; nothing is invoked if there is none;
\* and no attach or detach call is made.
C14_PlayingInvokesCurrentCallback ==
    lastOp = "onplaying"
    => calls = IF Falsy(props.onVideoPlaying)
               THEN << >>
               ELSE << [op |-> "onVideoPlaying",
                        callback |-> props.onVideoPlaying] >>

C14_Witness ==
    /\ lastOp = "onplaying"
    /\ props.onVideoPlaying \in Callbacks
    /\ Len(calls) = 1
    /\ calls[1].op = "onVideoPlaying"
    /\ calls[1].callback = props.onVideoPlaying
    /\ videoElement # Element(0)

====
